---- MODULE Spec2Model ----
(***************************************************************************)
(* Model of the optics engine of optsim2 (src/src/optsim2/optics_engine.py):*)
(* Ray, OpticsEngine.trace_ray and the two light-source generators.        *)
(*                                                                         *)
(* Python floats are modelled as fixed-point numbers: the integer x stands *)
(* for the real x / Scale, and every product, quotient and square root is  *)
(* rounded to the nearest unit, as IEEE arithmetic rounds to the nearest   *)
(* representable value.  A vector is a tuple of 2 or 3 such numbers; the   *)
(* empty tuple stands for a vector with nan or inf components.             *)
(***************************************************************************)
EXTENDS Integers, Sequences, FiniteSets, TLC

\* ------------------------------------------------------------------------
\* Fixed-point arithmetic
\* ------------------------------------------------------------------------

Scale == 100 * 1000

Fx(n) == n * Scale

Abs(x) == IF x < 0 THEN -x ELSE x

Sgn(x) == IF x < 0 THEN -1 ELSE 1

\* Then(v) for the value v of an expression: Python evaluates an expression
\* once and binds the result to a name.
Once(value, Then(_)) == CHOOSE result \in { Then(v) : v \in {value} } : TRUE

\* <<q, r>> with a * b = q * c + r and 0 <= r < c, for a, b >= 0 and c > 0,
\* computed by doubling so that no intermediate value exceeds the result.
RECURSIVE QR(_, _, _)
QR(a, b, c) ==
    IF b = 0 THEN <<0, 0>>
    ELSE LET h  == QR(a, b \div 2, c)
             r2 == 2 * h[2] + (IF b % 2 = 1 THEN a % c ELSE 0)
             q2 == 2 * h[1] + (IF b % 2 = 1 THEN a \div c ELSE 0)
         IN  <<q2 + (r2 \div c), r2 % c>>

\* From <<q, r>> with a * m = q * c + r the pair for 10 * m, for c small
\* enough that 10 * r fits.
TimesTen(h, c) == <<10 * h[1] + (10 * h[2]) \div c, (10 * h[2]) % c>>

\* <<q, r>> with a * Scale = q * c + r and 0 <= r < c, for a >= 0 and c > 0:
\* Scale is 10^5, so five steps of ten do where they fit.
QRScale(a, c) ==
    IF c > 2147483647 \div 10 THEN QR(a, Scale, c)
    ELSE TimesTen(TimesTen(TimesTen(TimesTen(TimesTen(
             <<a \div c, a % c>>, c), c), c), c), c)

\* The same for c = Scale, in closed form: x and y are split at Scale and
\* their low parts at 1000 and 100 (Scale = 1000 * 100), so that every
\* partial product fits.
MulQR(x, y) ==
    LET x1 == x \div Scale
        x0 == x % Scale
        y1 == y \div Scale
        y0 == y % Scale
        p1 == x0 \div 1000
        p0 == x0 % 1000
        q1 == y0 \div 100
        q0 == y0 % 100
        low == p1 * q0 * 1000 + p0 * q1 * 100 + p0 * q0
    IN  <<x1 * y + x0 * y1 + p1 * q1 + (low \div Scale), low % Scale>>

\* a * b / c rounded to the nearest integer (halves away from zero).
MulDiv(a, b, c) ==
    Once(<<a, b, c>>, LAMBDA v :
         LET m == QR(Abs(v[1]), Abs(v[2]), Abs(v[3]))
             q == m[1] + (IF 2 * m[2] >= Abs(v[3]) THEN 1 ELSE 0)
         IN  Sgn(v[1]) * Sgn(v[2]) * Sgn(v[3]) * q)

\* x * y on fixed-point numbers, rounded to the nearest unit.
Mul(x, y) ==
    LET m == MulQR(Abs(x), Abs(y))
        q == m[1] + (IF 2 * m[2] >= Scale THEN 1 ELSE 0)
    IN  Sgn(x) * Sgn(y) * q

\* x / y on fixed-point numbers, rounded to the nearest unit.
Div(x, y) ==
    Once(<<x, y>>, LAMBDA v :
         Once(QRScale(Abs(v[1]), Abs(v[2])), LAMBDA m :
              Sgn(v[1]) * Sgn(v[2])
              * (m[1] + (IF 2 * m[2] >= Abs(v[2]) THEN 1 ELSE 0))))

\* Newton's iteration for the integer square root of x * Scale, from a
\* start r that is not below it.
RECURSIVE FloorRoot(_, _)
FloorRoot(x, r) ==
    Once((r + QRScale(x, r)[1]) \div 2, LAMBDA next :
         IF next >= r THEN r ELSE FloorRoot(x, next))

\* math.sqrt on a fixed-point number x >= 0, rounded to the nearest unit.
Sqrt(x) ==
    Once(x, LAMBDA v :
         IF v = 0 THEN 0
         ELSE LET r    == FloorRoot(v, (v + Scale) \div 2 + 1)
                  lowq == MulQR(r, r)
                  upq  == MulQR(r + 1, r + 1)
                  below == (v - lowq[1]) * Scale - lowq[2]
                  above == (upq[1] - v) * Scale + upq[2]
              IN  IF above <= below THEN r + 1 ELSE r)

\* math.pi
Pi == 314159

\* An angle brought into [-Pi, Pi] by one turn.
WrapAngle(x) ==
    IF x > Pi THEN x - 2 * Pi ELSE IF x < -Pi THEN x + 2 * Pi ELSE x

\* The sine series from the term of order k on, summed until the terms
\* vanish: term is x^k / k! with its sign.
RECURSIVE SinSeries(_, _, _)
SinSeries(x, term, k) ==
    IF term = 0 THEN 0
    ELSE term + SinSeries(x, -MulDiv(Mul(Mul(term, x), x), 1,
                                     (k + 1) * (k + 2)), k + 2)

\* math.sin: the angle is folded into [-Pi/2, Pi/2] first.
Sin(x) ==
    LET w == WrapAngle(x)
        f == IF 2 * w > Pi THEN Pi - w
             ELSE IF 2 * w < -Pi THEN -Pi - w ELSE w
    IN  SinSeries(f, f, 1)

\* math.cos
Cos(x) == Sin(x + (Pi + 1) \div 2)

\* int(a / b) for integers a and b > 0: truncation towards zero.
Truncate(a, b) == Sgn(a) * (Abs(a) \div b)

Max(a, b) == IF a >= b THEN a ELSE b

\* ------------------------------------------------------------------------
\* Vectors (numpy arrays of shape (2,) or (3,))
\* ------------------------------------------------------------------------

\* An array holding nan or inf: numpy produces it on a division by zero
\* (with a warning, without raising) and every later operation keeps it.
NonFinite == << >>

IsFinite(v) == v # NonFinite

\* numpy raises ValueError when the shapes of two operands differ.
SameShape(a, b) == Len(a) = Len(b)

VAdd(a, b) ==
    IF ~IsFinite(a) \/ ~IsFinite(b) THEN NonFinite
    ELSE [i \in 1..Len(a) |-> a[i] + b[i]]

VSub(a, b) ==
    IF ~IsFinite(a) \/ ~IsFinite(b) THEN NonFinite
    ELSE [i \in 1..Len(a) |-> a[i] - b[i]]

VNeg(a) == [i \in 1..Len(a) |-> -a[i]]

\* a * k for a scalar k.
VScale(a, k) ==
    IF ~IsFinite(a) THEN NonFinite
    ELSE [i \in 1..Len(a) |-> Mul(a[i], k)]

\* a / k for a scalar k; a division by zero gives nan or inf components.
VDivide(a, k) ==
    IF ~IsFinite(a) \/ k = 0 THEN NonFinite
    ELSE [i \in 1..Len(a) |-> Div(a[i], k)]

RECURSIVE DotFrom(_, _, _)
DotFrom(a, b, i) ==
    IF i > Len(a) THEN 0 ELSE Mul(a[i], b[i]) + DotFrom(a, b, i + 1)

\* np.dot of two finite arrays of the same shape.
Dot(a, b) == DotFrom(a, b, 1)

\* np.linalg.norm
Norm(a) == Sqrt(Dot(a, a))

\* ------------------------------------------------------------------------
\* Program constants
\* ------------------------------------------------------------------------

\* N_AIR = 1.0 and N_WATER = 1.33
N_AIR == Scale

N_WATER == 133 * (Scale \div 100)

\* The threshold 0.001 of both intersection tests.
Epsilon == Scale \div 1000

\* ray.propagate(1000) of a ray that hits nothing.
EscapeDistance == 1000

\* trace_ray(self, ray, max_bounces=5)
DefaultMaxBounces == 5

\* Intensities are exact multiples of 1 / IntensityUnit; 1.0 is IntensityUnit.
IntensityUnit == 20 * 20 * 20 * 20 * 20 * 20

\* The cutoff 0.01 of trace_ray.
IntensityFloor == IntensityUnit \div 100

\* intensity * (num / 20): 0.95 is 19 / 20 and 0.8 is 16 / 20.
Attenuate(intensity, num) == (intensity * num + 10) \div 20

WaterFactor == 19

SphereFactor == 16

\* ------------------------------------------------------------------------
\* State
\* ------------------------------------------------------------------------

VARIABLES
    water_level,              \* OpticsEngine.water_level
    water_refractive_index,   \* OpticsEngine.water_refractive_index
    balls,                    \* OpticsEngine.balls: sequence of [position, radius]
    rays,                     \* OpticsEngine.rays: sequence of traced rays
    pc,                       \* where the running call stands
    call,                     \* the running top-level call and its arguments
    ray,                      \* the Ray that trace_ray is working on
    bounce,                   \* the loop variable of trace_ray
    max_bounces,              \* the argument of trace_ray
    hit,                      \* min_distance, hit_type, hit_data of this iteration
    ev,                       \* what the last loop iteration did (observation)
    plane_hits,               \* iterations whose nearest hit was the interface (observation)
    sphere_hits,              \* iterations whose nearest hit was a sphere (observation)
    propagations,             \* ray.propagate calls on this ray (observation)
    host                      \* the fields of the OpticsSimulator that owns the engine

vars == <<water_level, water_refractive_index, balls, rays, pc, call, ray,
          bounce, max_bounces, hit, ev, plane_hits, sphere_hits,
          propagations, host>>

scene == <<water_level, water_refractive_index, balls>>

observed == <<ev, plane_hits, sphere_hits, propagations>>

\* ------------------------------------------------------------------------
\* Ray
\* ------------------------------------------------------------------------

\* Ray.__init__: the direction is normalised, the path starts at the origin.
NewRay(origin, direction, intensity) ==
    [origin    |-> origin,
     direction |-> VDivide(direction, Norm(direction)),
     intensity |-> intensity,
     path      |-> <<origin>>]

\* A variant of propagate that moves the ray without recording the point.
PropagateUnrecorded(r, distance) ==
    [r EXCEPT !.origin = VAdd(r.origin, VScale(r.direction, distance))]

\* Ray.propagate
Propagate(r, distance) ==
    LET new_point == VAdd(r.origin, VScale(r.direction, distance))
    IN  [r EXCEPT !.origin = new_point, !.path = Append(r.path, new_point)]

\* No Ray object exists outside a call.
NoRay == [origin |-> NonFinite, direction |-> NonFinite, intensity |-> 0,
          path |-> << >>]

\* ------------------------------------------------------------------------
\* OpticsEngine: optics
\* ------------------------------------------------------------------------

\* OpticsEngine.refract: "vector" with the refracted direction, "none" on
\* total internal reflection, "raise" when np.dot rejects the shapes.
Refract(incident, normal, n1, n2) ==
    IF ~SameShape(incident, normal) THEN [kind |-> "raise", v |-> NonFinite]
    ELSE LET c0   == -Dot(incident, normal)
             flip == c0 < 0
             cos_i == IF flip THEN -c0 ELSE c0
             nrm  == IF flip THEN VNeg(normal) ELSE normal
             m1   == IF flip THEN n2 ELSE n1
             m2   == IF flip THEN n1 ELSE n2
             n    == Div(m1, m2)
             sin_t2 == Mul(Mul(n, n), Scale - Mul(cos_i, cos_i))
         IN  IF sin_t2 > Scale THEN [kind |-> "none", v |-> NonFinite]
             ELSE LET cos_t == Sqrt(Scale - sin_t2)
                      refracted == VAdd(VScale(incident, n),
                                        VScale(nrm, Mul(n, cos_i) - cos_t))
                  IN  [kind |-> "vector",
                       v |-> VDivide(refracted, Norm(refracted))]

\* A variant of reflect that lets the ray pass unchanged.
ReflectNothing(incident, normal) == incident

\* OpticsEngine.reflect
Reflect(incident, normal) ==
    IF ~IsFinite(incident) \/ ~IsFinite(normal) THEN NonFinite
    ELSE VSub(incident, VScale(normal, 2 * Dot(incident, normal)))

\* A variant of intersect_sphere that never falls back to the larger root.
IntersectSphereNearOnly(r, ball) ==
    IF ~IsFinite(r.origin) \/ ~IsFinite(r.direction)
    THEN [kind |-> "nan", t |-> 0, normal |-> NonFinite]
    ELSE IF ~SameShape(r.origin, ball.position)
    THEN [kind |-> "raise", t |-> 0, normal |-> NonFinite]
    ELSE LET oc == VSub(r.origin, ball.position)
             a  == Dot(r.direction, r.direction)
             b  == 2 * Dot(oc, r.direction)
             c  == Dot(oc, oc) - Mul(ball.radius, ball.radius)
             discriminant == Mul(b, b) - 4 * Mul(a, c)
         IN  IF discriminant < 0
             THEN [kind |-> "none", t |-> 0, normal |-> NonFinite]
             ELSE LET t == Div(-b - Sqrt(discriminant), 2 * a)
                  IN  IF t < Epsilon
                      THEN [kind |-> "none", t |-> 0, normal |-> NonFinite]
                      ELSE LET intersection ==
                                   VAdd(r.origin, VScale(r.direction, t))
                           IN  [kind |-> "hit", t |-> t,
                                normal |-> VDivide(
                                    VSub(intersection, ball.position),
                                    ball.radius)]

\* OpticsEngine.intersect_sphere: "hit" with the distance and the normal,
\* "none", "nan" when the ray is not finite (every comparison with nan is
\* false, so the result is a pair holding nan), "raise" when the shapes of
\* the ray's origin and the sphere's position differ.
IntersectSphere(r, ball) ==
    IF ~IsFinite(r.origin) \/ ~IsFinite(r.direction)
    THEN [kind |-> "nan", t |-> 0, normal |-> NonFinite]
    ELSE IF ~SameShape(r.origin, ball.position)
    THEN [kind |-> "raise", t |-> 0, normal |-> NonFinite]
    ELSE LET oc == VSub(r.origin, ball.position)
             a  == Dot(r.direction, r.direction)
             b  == 2 * Dot(oc, r.direction)
             c  == Dot(oc, oc) - Mul(ball.radius, ball.radius)
             discriminant == Mul(b, b) - 4 * Mul(a, c)
         IN  IF discriminant < 0
             THEN [kind |-> "none", t |-> 0, normal |-> NonFinite]
             ELSE LET t1 == Div(-b - Sqrt(discriminant), 2 * a)
                      t2 == Div(-b + Sqrt(discriminant), 2 * a)
                      t  == IF t1 < Epsilon THEN t2 ELSE t1
                  IN  IF t1 < Epsilon /\ t2 < Epsilon
                      THEN [kind |-> "none", t |-> 0, normal |-> NonFinite]
                      ELSE LET intersection ==
                                   VAdd(r.origin, VScale(r.direction, t))
                           IN  [kind |-> "hit", t |-> t,
                                normal |-> VDivide(
                                    VSub(intersection, ball.position),
                                    ball.radius)]

\* A variant of intersect_water_surface that rejects only an interface
\* behind the ray.
IntersectWaterSurfaceAtZero(r) ==
    IF ~IsFinite(r.origin) \/ ~IsFinite(r.direction)
    THEN [kind |-> "nan", t |-> 0]
    ELSE IF Abs(r.direction[2]) < Epsilon THEN [kind |-> "none", t |-> 0]
    ELSE LET t == Div(water_level - r.origin[2], r.direction[2])
         IN  IF t < 0 THEN [kind |-> "none", t |-> 0]
             ELSE [kind |-> "hit", t |-> t]

\* OpticsEngine.intersect_water_surface
IntersectWaterSurface(r) ==
    IF ~IsFinite(r.origin) \/ ~IsFinite(r.direction)
    THEN [kind |-> "nan", t |-> 0]
    ELSE IF Abs(r.direction[2]) < Epsilon THEN [kind |-> "none", t |-> 0]
    ELSE LET t == Div(water_level - r.origin[2], r.direction[2])
         IN  IF t < Epsilon THEN [kind |-> "none", t |-> 0]
             ELSE [kind |-> "hit", t |-> t]

\* min_distance = inf, hit_type = None, hit_data = None
NoHit == [min_distance |-> 0, hit_type |-> "none", hit_data |-> NonFinite,
          ball |-> 0, raised |-> FALSE]

\* A variant of the loop over self.balls in which a hit at the same distance
\* replaces the one found so far.
RECURSIVE ScanBallsLatest(_, _, _)
ScanBallsLatest(r, k, found) ==
    IF k > Len(balls) THEN found
    ELSE Once(IntersectSphere(r, balls[k]), LAMBDA result :
             IF result.kind = "raise" THEN [found EXCEPT !.raised = TRUE]
             ELSE IF result.kind = "hit"
                     /\ (found.hit_type = "none"
                         \/ result.t <= found.min_distance)
             THEN ScanBallsLatest(r, k + 1,
                            [min_distance |-> result.t, hit_type |-> "sphere",
                             hit_data |-> result.normal, ball |-> k,
                             raised |-> FALSE])
             ELSE ScanBallsLatest(r, k + 1, found))

\* The loop over self.balls in trace_ray, from ball k on: a nearer hit
\* replaces the one found so far; an exception leaves the loop at once.
RECURSIVE ScanBalls(_, _, _)
ScanBalls(r, k, found) ==
    IF k > Len(balls) THEN found
    ELSE Once(IntersectSphere(r, balls[k]), LAMBDA result :
             IF result.kind = "raise" THEN [found EXCEPT !.raised = TRUE]
             ELSE IF result.kind = "hit"
                     /\ (found.hit_type = "none"
                         \/ result.t < found.min_distance)
             THEN ScanBalls(r, k + 1,
                            [min_distance |-> result.t, hit_type |-> "sphere",
                             hit_data |-> result.normal, ball |-> k,
                             raised |-> FALSE])
             ELSE ScanBalls(r, k + 1, found))

\* A search that takes the interface whenever the ray meets it, whatever
\* the spheres.
NearestHitInterfaceWins(r) ==
    LET water_dist == IntersectWaterSurface(r)
    IN  IF water_dist.kind = "hit"
        THEN [min_distance |-> water_dist.t, hit_type |-> "water",
              hit_data |-> NonFinite, ball |-> 0, raised |-> FALSE]
        ELSE ScanBalls(r, 1, NoHit)

\* The search for the nearest hit of trace_ray: the interface first, then
\* the spheres in list order.  hit_type "none" stands for min_distance = inf.
NearestHit(r) ==
    LET water_dist == IntersectWaterSurface(r)
        first == IF water_dist.kind = "hit"
                 THEN [min_distance |-> water_dist.t, hit_type |-> "water",
                       hit_data |-> NonFinite, ball |-> 0, raised |-> FALSE]
                 ELSE NoHit
    IN  ScanBalls(r, 1, first)

\* The normal of the interface used by trace_ray: always three components.
WaterNormal == <<0, -Scale, 0>>

\* The pair (n1, n2) trace_ray passes to refract at an interface hit; r is
\* the ray after ray.propagate(min_distance).
MediumPair(r) ==
    IF r.origin[2] < water_level
    THEN <<N_AIR, water_refractive_index>>
    ELSE <<water_refractive_index, N_AIR>>

\* ------------------------------------------------------------------------
\* Inputs explored
\* ------------------------------------------------------------------------

\* OpticsEngine(width, height)
Engine == [width |-> 8, height |-> 5]

\* At most this many add_ball calls are explored.
MaxBalls == 2

\* trace_ray is called with max_bounces in 0..MaxBouncesArg and with the
\* default.
MaxBouncesArg == 1

\* create_light_source is called with num_rays in 0..MaxRays.
MaxRays == 2

\* create_light_source_3d is called with num_rays_radial in 0..MaxRadial.
MaxRadial == 2

\* create_light_source_3d is called while engine.rays holds fewer rays
\* than this.
MaxStoredRays == 2

\* The ball count slider is explored up to MaxHostBalls.
MaxHostBalls == 2

\* Arguments of add_ball: a sphere of radius 1 below the interface, a
\* sphere of radius -1 around the lower source, which touches the first
\* sphere from above and the initial interface from below, and a sphere of
\* radius zero level with the lower source.
BallChoices ==
    { [position |-> <<Fx(3), Fx(6), 0>>, radius |-> Fx(1)],
      [position |-> <<Fx(3), Fx(4), 0>>, radius |-> -Fx(1)],
      [position |-> <<Fx(5), Fx(4), 0>>, radius |-> 0] }

\* The spheres already in the scene.
Placed == { balls[k] : k \in 1..Len(balls) }

\* Arguments of set_water_level.
LevelChoices == { Fx(8) }

\* Values the host stores in water_refractive_index.
IndexChoices == { 15 * (Scale \div 10) }

\* Origins of the rays handed to trace_ray directly.
OriginChoices == { <<Fx(3), Fx(1), 0>>, <<Fx(3), Fx(4), 0>> }

\* Their directions, as given to Ray (not yet normalised): along the axes,
\* a 3-4-5 slope, 80 degrees from the vertical, downwards and upwards, and
\* the zero vector.
DirectionChoices ==
    { <<0, Fx(1), 0>>, <<0, -Fx(1), 0>>, <<Fx(1), 0, 0>>,
      <<Fx(3), Fx(4), 0>>, <<98481, 17365, 0>>, <<98481, -17365, 0>>,
      <<0, 0, 0>> }

\* The ray Ray((x, y), (0, 1)) of two components, straight down from the
\* upper source.
PlanarOrigins == { <<Fx(3), Fx(1)>> }

PlanarDirections == { <<0, Fx(1)>> }

\* Rays that start just above the initial interface, 0.0005 and 0.0015
\* away from it, straight down or nearly parallel to it (a slope of 0.0005),
\* traced with the default bounce limit.
NearOrigins ==
    { <<Fx(3), Fx(3) - Epsilon \div 2, 0>>,
      <<Fx(3), Fx(3) - (3 * Epsilon) \div 2, 0>> }

NearDirections == { <<0, Fx(1), 0>>, <<Fx(1), Epsilon \div 2, 0>> }

BounceChoices == (0..MaxBouncesArg) \cup {DefaultMaxBounces}

\* Ray(origin, direction) has intensity 1.0; Ray(origin, direction, 0.005)
\* starts below the cutoff and Ray(origin, direction, 0.01) exactly at it.
IntensityChoices ==
    { IntensityUnit, IntensityUnit \div 200, IntensityUnit \div 100 }

\* Arguments of create_light_source: a source above the interface, up to
\* MaxRays rays or five, the default spread or a right angle, pointing down
\* (0) or up (pi).
FanPositions == { <<Fx(3), Fx(1)>> }

FanCounts == (0..MaxRays) \cup { 5 }

SpreadChoices == { Pi \div 3 }

FanSpreads == SpreadChoices \cup { Pi \div 2 }

FanCenters == { 0, Pi }

\* Arguments of create_light_source_3d: the same source, pointing down.
ConePositions == { <<Fx(3), Fx(1), 0>> }

\* A source at the lower origin, inside the sphere around it, sends its
\* center ray alone (num_rays_radial = 1) while engine.rays is empty.
InnerConePositions == { <<Fx(3), Fx(4), 0>> }

RadialCounts == 0..MaxRadial

CircularCounts == { 0, 5 }

\* The triples (num_rays_radial, num_rays_circular, spread_angle) explored:
\* every pair of the two sets with the default spread, three levels of
\* twelve, and three levels with a spread of zero.
ConeChoices ==
    (RadialCounts \X CircularCounts \X SpreadChoices)
        \cup { <<3, 12, Pi \div 3>>, <<3, 0, 0>> }

ConeCenters == { 0 }

\* ------------------------------------------------------------------------
\* Initial state: OpticsEngine.__init__
\* ------------------------------------------------------------------------

NoCall == [kind |-> "none"]

NoEvent ==
    [kind |-> "none", pre_origin |-> NonFinite, incident |-> NonFinite,
     dist |-> 0, n1 |-> 0, n2 |-> 0, normal |-> NonFinite, ball |-> 0,
     outcome |-> "none"]

\* An engine used on its own has no simulator around it.
NoHost == << >>

Init ==
    /\ host = NoHost
    /\ water_level = Mul(Fx(Engine.height), 6 * (Scale \div 10))
    /\ water_refractive_index = N_WATER
    /\ balls = << >>
    /\ rays = << >>
    /\ pc = "idle"
    /\ call = NoCall
    /\ ray = NoRay
    /\ bounce = 0
    /\ max_bounces = 0
    /\ hit = NoHit
    /\ ev = NoEvent
    /\ plane_hits = 0
    /\ sphere_hits = 0
    /\ propagations = 0

\* ------------------------------------------------------------------------
\* Scene configuration (between calls)
\* ------------------------------------------------------------------------

\* The scene is configured before the first ray is stored.
Configurable == pc = "idle" /\ rays = << >>

\* OpticsEngine.add_ball
AddBall(position, radius) ==
    /\ Configurable
    /\ Len(balls) < MaxBalls
    /\ balls' = Append(balls, [position |-> position, radius |-> radius])
    /\ UNCHANGED <<water_level, water_refractive_index, rays, pc, call, ray,
                   bounce, max_bounces, hit, observed>>
    /\ UNCHANGED host

\* OpticsEngine.set_water_level
SetWaterLevel(level) ==
    /\ Configurable
    /\ water_level' = level
    /\ UNCHANGED <<water_refractive_index, balls, rays, pc, call, ray,
                   bounce, max_bounces, hit, observed>>
    /\ UNCHANGED host

\* The host's assignment to engine.water_refractive_index.
SetRefractiveIndex(value) ==
    /\ Configurable
    /\ water_refractive_index' = value
    /\ UNCHANGED <<water_level, balls, rays, pc, call, ray, bounce,
                   max_bounces, hit, observed>>
    /\ UNCHANGED host

\* ------------------------------------------------------------------------
\* trace_ray
\* ------------------------------------------------------------------------

\* A variant of the entry that keeps counting the iterations from where the
\* trace before left off.
EnterTraceResumed(r, limit) ==
    /\ ray' = r
    /\ bounce' = bounce
    /\ max_bounces' = limit
    /\ hit' = NoHit
    /\ ev' = NoEvent
    /\ plane_hits' = 0
    /\ sphere_hits' = 0
    /\ propagations' = 0
    /\ pc' = "loop"

\* Entry of trace_ray(r, limit): the loop starts at its first iteration.
EnterTrace(r, limit) ==
    /\ ray' = r
    /\ bounce' = 0
    /\ max_bounces' = limit
    /\ hit' = NoHit
    /\ ev' = NoEvent
    /\ plane_hits' = 0
    /\ sphere_hits' = 0
    /\ propagations' = 0
    /\ pc' = "loop"

\* A caller builds a Ray and calls trace_ray on it.
TraceRayCall(origin, direction, intensity, limit) ==
    /\ pc = "idle"
    /\ call' = [kind |-> "trace", origin |-> origin, direction |-> direction,
                intensity |-> intensity, max_bounces |-> limit]
    /\ EnterTrace(NewRay(origin, direction, intensity), limit)
    /\ UNCHANGED <<scene, rays>>
    /\ UNCHANGED host

\* A variant of the loop bound that admits one more iteration.
LoopContinuesOnceMore == bounce <= max_bounces

\* for bounce in range(max_bounces): another iteration starts.
LoopContinues == bounce < max_bounces

\* A variant of the cutoff test that also stops a ray of intensity 0.01.
AtOrBelowCutoff(r) == r.intensity <= IntensityFloor

\* ray.intensity < 0.01
BelowCutoff(r) == r.intensity < IntensityFloor

\* if ray.intensity < 0.01: break
TraceCutoff ==
    /\ pc = "loop"
    /\ LoopContinues
    /\ BelowCutoff(ray)
    /\ pc' = "return"
    /\ ev' = [NoEvent EXCEPT !.kind = "cutoff", !.pre_origin = ray.origin,
                             !.incident = ray.direction]
    /\ UNCHANGED <<scene, rays, call, ray, bounce, max_bounces, hit,
                   plane_hits, sphere_hits, propagations>>
    /\ UNCHANGED host

\* The search for the nearest hit; an exception of intersect_sphere leaves
\* trace_ray.
TraceScan ==
    /\ pc = "loop"
    /\ LoopContinues
    /\ ~BelowCutoff(ray)
    /\ hit' = NearestHit(ray)
    /\ pc' = IF hit'.raised THEN "raised" ELSE "found"
    /\ ev' = IF hit'.raised
             THEN [NoEvent EXCEPT !.kind = "raise", !.pre_origin = ray.origin,
                                  !.incident = ray.direction]
             ELSE ev
    /\ UNCHANGED <<scene, rays, call, ray, bounce, max_bounces, plane_hits,
                   sphere_hits, propagations>>
    /\ UNCHANGED host

\* A variant of the escape that leaves the loop without the last segment.
TraceEscapeUnmoved ==
    /\ pc = "found"
    /\ hit.hit_type = "none"
    /\ pc' = "return"
    /\ ev' = [NoEvent EXCEPT !.kind = "escape", !.pre_origin = ray.origin,
                             !.incident = ray.direction,
                             !.dist = Fx(EscapeDistance)]
    /\ UNCHANGED <<scene, rays, call, ray, bounce, max_bounces, hit,
                   plane_hits, sphere_hits, propagations>>
    /\ UNCHANGED host

\* if hit_type is None: ray.propagate(1000); break
TraceEscape ==
    /\ pc = "found"
    /\ hit.hit_type = "none"
    /\ ray' = Propagate(ray, Fx(EscapeDistance))
    /\ propagations' = propagations + 1
    /\ pc' = "return"
    /\ ev' = [NoEvent EXCEPT !.kind = "escape", !.pre_origin = ray.origin,
                             !.incident = ray.direction,
                             !.dist = Fx(EscapeDistance)]
    /\ UNCHANGED <<scene, rays, call, bounce, max_bounces, hit, plane_hits,
                   sphere_hits>>
    /\ UNCHANGED host

\* A variant in which the index of the medium the ray is taken to leave is
\* stored in the engine.
SceneMediumStored ==
    /\ water_refractive_index' = N_AIR
    /\ UNCHANGED <<water_level, balls>>

\* trace_ray assigns to no field of the engine: current_medium and
\* new_medium are locals.
SceneKept == UNCHANGED scene

\* The interface is the nearest hit: propagate to it, then refract or, on
\* total internal reflection, reflect; the intensity is multiplied by 0.95.
\* When refract raises, the ray has been propagated and nothing else.
TraceWaterHit ==
    /\ pc = "found"
    /\ hit.hit_type = "water"
    /\ LET moved == Propagate(ray, hit.min_distance)
           n12 == MediumPair(moved)
           refracted == Refract(moved.direction, WaterNormal, n12[1], n12[2])
           seen == [NoEvent EXCEPT !.kind = "water",
                                   !.pre_origin = ray.origin,
                                   !.incident = ray.direction,
                                   !.dist = hit.min_distance,
                                   !.n1 = n12[1], !.n2 = n12[2],
                                   !.normal = WaterNormal]
       IN  IF refracted.kind = "raise"
           THEN /\ ray' = moved
                /\ pc' = "raised"
                /\ ev' = [seen EXCEPT !.outcome = "raise"]
                /\ UNCHANGED bounce
           ELSE /\ ray' = [moved EXCEPT
                             !.direction =
                                 IF refracted.kind = "vector"
                                 THEN refracted.v
                                 ELSE Reflect(moved.direction, WaterNormal),
                             !.intensity =
                                 Attenuate(moved.intensity, WaterFactor)]
                /\ pc' = "loop"
                /\ ev' = [seen EXCEPT !.outcome =
                             IF refracted.kind = "vector"
                             THEN "refract" ELSE "reflect"]
                /\ bounce' = bounce + 1
    /\ plane_hits' = plane_hits + 1
    /\ propagations' = propagations + 1
    /\ SceneKept
    /\ UNCHANGED <<rays, call, max_bounces, hit, sphere_hits>>
    /\ UNCHANGED host

\* A sphere is the nearest hit: propagate to it and reflect about the normal
\* that intersect_sphere returned; the intensity is multiplied by 0.8.
TraceSphereHit ==
    /\ pc = "found"
    /\ hit.hit_type = "sphere"
    /\ LET moved == Propagate(ray, hit.min_distance)
       IN  ray' = [moved EXCEPT
                     !.direction = Reflect(moved.direction, hit.hit_data),
                     !.intensity = Attenuate(moved.intensity, SphereFactor)]
    /\ ev' = [NoEvent EXCEPT !.kind = "sphere", !.pre_origin = ray.origin,
                             !.incident = ray.direction,
                             !.dist = hit.min_distance,
                             !.normal = hit.hit_data, !.ball = hit.ball,
                             !.outcome = "reflect"]
    /\ pc' = "loop"
    /\ bounce' = bounce + 1
    /\ sphere_hits' = sphere_hits + 1
    /\ propagations' = propagations + 1
    /\ UNCHANGED <<scene, rays, call, max_bounces, hit, plane_hits>>
    /\ UNCHANGED host

\* range(max_bounces) is exhausted: the loop ends.
TraceExhausted ==
    /\ pc = "loop"
    /\ ~LoopContinues
    /\ pc' = "return"
    /\ UNCHANGED <<scene, rays, call, ray, bounce, max_bounces, hit,
                   observed>>
    /\ UNCHANGED host

\* return ray, to the caller of a direct call.
TraceReturn ==
    /\ pc = "return"
    /\ call.kind = "trace"
    /\ pc' = "done"
    /\ UNCHANGED <<scene, rays, call, ray, bounce, max_bounces, hit,
                   observed>>
    /\ UNCHANGED host

\* ------------------------------------------------------------------------
\* create_light_source
\* ------------------------------------------------------------------------

\* Entry: rays = [], start_angle = center_angle - spread_angle / 2.
CreateLightSource(position, num_rays, spread_angle, center_angle) ==
    /\ pc = "idle"
    /\ call' = [kind |-> "fan", position |-> position,
                num_rays |-> num_rays, spread_angle |-> spread_angle,
                center_angle |-> center_angle,
                start_angle |-> center_angle - MulDiv(spread_angle, 1, 2),
                i |-> 0, angle |-> 0, batch |-> << >>]
    /\ pc' = "fan"
    /\ UNCHANGED <<scene, rays, ray, bounce, max_bounces, hit, observed>>
    /\ UNCHANGED host

\* The angle of ray i of the fan.
FanAngle(c) ==
    c.start_angle + MulDiv(c.spread_angle * c.i, 1, c.num_rays - 1)

\* One pass of the loop body up to the call of trace_ray: the division by
\* num_rays - 1 raises ZeroDivisionError when num_rays is 1.
FanRay ==
    /\ pc = "fan"
    /\ call.i < call.num_rays
    /\ IF call.num_rays - 1 = 0
       THEN /\ pc' = "raised"
            /\ UNCHANGED <<call, ray, bounce, max_bounces, hit, observed>>
       ELSE LET angle == FanAngle(call)
                direction == <<Sin(angle), Cos(angle)>>
            IN  /\ call' = [call EXCEPT !.angle = angle]
                /\ EnterTrace(NewRay(call.position, direction, IntensityUnit),
                              DefaultMaxBounces)
    /\ UNCHANGED <<scene, rays>>
    /\ UNCHANGED host

\* rays.append(self.trace_ray(ray))
FanAppend ==
    /\ pc = "return"
    /\ call.kind = "fan"
    /\ call' = [call EXCEPT !.batch = Append(@, ray), !.i = @ + 1]
    /\ pc' = "fan"
    /\ UNCHANGED <<scene, rays, ray, bounce, max_bounces, hit, observed>>
    /\ UNCHANGED host

\* self.rays = rays; return rays
FanReturn ==
    /\ pc = "fan"
    /\ call.i >= call.num_rays
    /\ rays' = call.batch
    /\ pc' = "done"
    /\ UNCHANGED <<scene, call, ray, bounce, max_bounces, hit, observed>>
    /\ UNCHANGED host

\* ------------------------------------------------------------------------
\* create_light_source_3d
\* ------------------------------------------------------------------------

\* Entry: rays = []; the ray along the center axis is the first one.
CreateLightSource3d(position, radial, circular, spread_angle, center_angle) ==
    /\ pc = "idle"
    /\ call' = [kind |-> "cone", position |-> position,
                num_rays_radial |-> radial,
                num_rays_circular |-> circular,
                spread_angle |-> spread_angle,
                center_angle |-> center_angle,
                i |-> 0, j |-> 0, theta |-> 0, batch |-> << >>]
    /\ EnterTrace(NewRay(position,
                         <<Sin(center_angle), Cos(center_angle), 0>>,
                         IntensityUnit),
                  DefaultMaxBounces)
    /\ UNCHANGED <<scene, rays>>
    /\ UNCHANGED host

\* theta of ring i with the rings spread over num_rays_radial steps
RingAngleInside(c) ==
    Mul(MulDiv(c.spread_angle, 1, 2),
        Div(Fx(c.i), Fx(c.num_rays_radial)))

\* theta of ring i
RingAngle(c) ==
    Mul(MulDiv(c.spread_angle, 1, 2),
        Div(Fx(c.i), Fx(c.num_rays_radial - 1)))

\* num_rays_at_level with the ring index taken one too far
RaysAtLevelOuter(c) ==
    Max(1, Truncate(c.num_rays_circular * (c.i + 1), c.num_rays_radial))

\* num_rays_at_level of ring i
RaysAtLevel(c) ==
    Max(1, Truncate(c.num_rays_circular * c.i, c.num_rays_radial))

\* The direction of sample j of ring i.
ConeDirection(c) ==
    LET theta == RingAngle(c)
        phi == MulDiv(2 * Pi, c.j, RaysAtLevel(c))
        local_x == Mul(Sin(theta), Cos(phi))
        local_y == Cos(theta)
        local_z == Mul(Sin(theta), Sin(phi))
        cos_a == Cos(c.center_angle)
        sin_a == Sin(c.center_angle)
    IN  <<Mul(local_x, cos_a) + Mul(local_y, sin_a),
          Mul(local_y, cos_a) - Mul(local_x, sin_a),
          local_z>>

\* One pass of the inner loop body up to the call of trace_ray.
ConeRay ==
    /\ pc = "cone"
    /\ call.i < call.num_rays_radial
    /\ call' = [call EXCEPT !.theta = RingAngle(call)]
    /\ EnterTrace(NewRay(call.position, ConeDirection(call), IntensityUnit),
                  DefaultMaxBounces)
    /\ UNCHANGED <<scene, rays>>
    /\ UNCHANGED host

\* rays.append(self.trace_ray(ray)), and the step of the loops: after the
\* center ray the rings start at i = 1; a ring ends after its last sample.
ConeAppend ==
    /\ pc = "return"
    /\ call.kind = "cone"
    /\ LET added == [call EXCEPT !.batch = Append(@, ray)]
       IN  call' = IF call.i = 0
                   THEN [added EXCEPT !.i = 1, !.j = 0]
                   ELSE IF call.j + 1 < RaysAtLevel(call)
                   THEN [added EXCEPT !.j = @ + 1]
                   ELSE [added EXCEPT !.i = @ + 1, !.j = 0]
    /\ pc' = "cone"
    /\ UNCHANGED <<scene, rays, ray, bounce, max_bounces, hit, observed>>
    /\ UNCHANGED host

\* A variant of the return of create_light_source_3d that stores the batch
\* in place of the rays stored before.
ConeReturnReplacing ==
    /\ pc = "cone"
    /\ call.i >= call.num_rays_radial
    /\ rays' = call.batch
    /\ pc' = "done"
    /\ UNCHANGED <<scene, call, ray, bounce, max_bounces, hit, observed>>
    /\ UNCHANGED host

\* self.rays.extend(rays); return rays
ConeReturn ==
    /\ pc = "cone"
    /\ call.i >= call.num_rays_radial
    /\ rays' = rays \o call.batch
    /\ pc' = "done"
    /\ UNCHANGED <<scene, call, ray, bounce, max_bounces, hit, observed>>
    /\ UNCHANGED host

\* The caller is done with the result, or has seen the exception.
Finish ==
    /\ pc \in {"done", "raised"}
    /\ pc' = "idle"
    /\ call' = NoCall
    /\ ray' = NoRay
    /\ bounce' = 0
    /\ max_bounces' = 0
    /\ hit' = NoHit
    /\ ev' = NoEvent
    /\ plane_hits' = 0
    /\ sphere_hits' = 0
    /\ propagations' = 0
    /\ UNCHANGED <<scene, rays>>
    /\ UNCHANGED host

Next ==
    \/ \E b \in BallChoices \ Placed : AddBall(b.position, b.radius)
    \/ \E level \in LevelChoices : SetWaterLevel(level)
    \/ \E value \in IndexChoices : SetRefractiveIndex(value)
    \/ \E o \in OriginChoices, d \in DirectionChoices,
          i \in IntensityChoices, limit \in BounceChoices :
            /\ rays = << >>
            /\ (i = IntensityUnit \/ limit = DefaultMaxBounces)
            /\ TraceRayCall(o, d, i, limit)
    \/ \E o \in PlanarOrigins, d \in PlanarDirections, limit \in BounceChoices :
            rays = << >> /\ TraceRayCall(o, d, IntensityUnit, limit)
    \/ \E o \in NearOrigins, d \in NearDirections :
            /\ rays = << >>
            /\ TraceRayCall(o, d, IntensityUnit, DefaultMaxBounces)
    \/ \E p \in FanPositions, n \in FanCounts, sp \in FanSpreads,
          c \in FanCenters :
            CreateLightSource(p, n, sp, c)
    \/ \E p \in ConePositions, n \in ConeChoices, c \in ConeCenters :
            /\ Len(rays) < MaxStoredRays
            /\ CreateLightSource3d(p, n[1], n[2], n[3], c)
    \/ \E p \in InnerConePositions, sp \in SpreadChoices, c \in ConeCenters :
            /\ rays = << >>
            /\ CreateLightSource3d(p, 1, 0, sp, c)
    \/ TraceCutoff
    \/ TraceScan
    \/ TraceEscape
    \/ TraceWaterHit
    \/ TraceSphereHit
    \/ TraceExhausted
    \/ TraceReturn
    \/ FanRay
    \/ FanAppend
    \/ FanReturn
    \/ ConeRay
    \/ ConeAppend
    \/ ConeReturn
    \/ Finish

Spec == Init /\ [][Next]_vars

\* ------------------------------------------------------------------------
\* trace_ray and create_light_source_3d as functions of the ray and the scene
\* ------------------------------------------------------------------------

\* One iteration of the loop of trace_ray on r: the ray it leaves and
\* whether the loop goes on with it.  NoRay stands for an exception.
Bounced(r) ==
    Once(NearestHit(r), LAMBDA found :
      IF found.raised THEN [ray |-> NoRay, goes_on |-> FALSE]
      ELSE IF found.hit_type = "none"
      THEN [ray |-> Propagate(r, Fx(EscapeDistance)), goes_on |-> FALSE]
      ELSE Once(Propagate(r, found.min_distance), LAMBDA moved :
        IF found.hit_type = "water"
        THEN Once(Refract(moved.direction, WaterNormal,
                          MediumPair(moved)[1], MediumPair(moved)[2]),
                  LAMBDA refracted :
          IF refracted.kind = "raise"
          THEN [ray |-> NoRay, goes_on |-> FALSE]
          ELSE [ray |-> [moved EXCEPT
                           !.direction =
                               IF refracted.kind = "vector"
                               THEN refracted.v
                               ELSE Reflect(moved.direction, WaterNormal),
                           !.intensity = Attenuate(moved.intensity,
                                                   WaterFactor)],
                goes_on |-> TRUE])
        ELSE [ray |-> [moved EXCEPT
                         !.direction = Reflect(moved.direction,
                                               found.hit_data),
                         !.intensity = Attenuate(moved.intensity,
                                                 SphereFactor)],
              goes_on |-> TRUE]))

\* The ray trace_ray returns for r when it enters iteration b of limit.
RECURSIVE Traced(_, _, _)
Traced(r, b, limit) ==
    IF b >= limit \/ BelowCutoff(r) THEN r
    ELSE Once(Bounced(r), LAMBDA next :
           IF next.goes_on THEN Traced(next.ray, b + 1, limit)
           ELSE next.ray)

\* What a generator appends for a ray from origin along direction: the ray
\* made with the default intensity and traced with the default limit.
TracedFrom(origin, direction) ==
    Once(NewRay(origin, direction, IntensityUnit),
         LAMBDA r : Traced(r, 0, DefaultMaxBounces))

\* The rays of ring c.i of a cone, each traced, in the order of j.
RingOf(c) ==
    [k \in 1..RaysAtLevel(c) |->
        TracedFrom(c.position, ConeDirection([c EXCEPT !.j = k - 1]))]

\* The rays of the rings of a cone from ring i on.
RECURSIVE RingRays(_, _)
RingRays(c, i) ==
    IF i >= c.num_rays_radial THEN << >>
    ELSE RingOf([c EXCEPT !.i = i]) \o RingRays(c, i + 1)

\* The batch create_light_source_3d returns: the center ray, then the rings.
ConeBatch(position, radial, circular, spread_angle, center_angle) ==
    <<TracedFrom(position, <<Sin(center_angle), Cos(center_angle), 0>>)>>
    \o Once([kind |-> "cone", position |-> position,
             num_rays_radial |-> radial, num_rays_circular |-> circular,
             spread_angle |-> spread_angle, center_angle |-> center_angle,
             i |-> 1, j |-> 0, theta |-> 0, batch |-> << >>],
            LAMBDA c : RingRays(c, 1))

\* ------------------------------------------------------------------------
\* OpticsSimulator: the host of the engine
\* ------------------------------------------------------------------------

\* The host's lengths are held in units of 1000 pixels, so that the squares
\* of the distances its rays travel fit the integers.  view_width =
\* (1800 - 250 - 30) // 2 = 760 and view_height = 900 - 100 = 800.
ViewWidth == (Fx(76)) \div 100

ViewHeight == (Fx(8)) \div 10

\* 1 mm = 4 pixels
mm_to_pixel == 4

\* mm * mm_to_pixel for a length of mm / per millimetres.
Pixels(mm, per) == (mm * mm_to_pixel * Scale) \div (per * 1000)

\* The fields OpticsSimulator.__init__ sets: ball_radius_mm in hundredths,
\* the spacings in tenths of a millimetre, light_intensity in hundredths.
InitialHost ==
    [light_position |-> <<(Fx(3)) \div 10, (Fx(45)) \div 100>>,
     light_angle |-> Pi \div 4,
     light_spread |-> Pi \div 36,
     light_intensity |-> 100,
     light_count |-> 15,
     light_spacing_mm |-> 30,
     ball_count |-> 2,
     ball_radius_mm |-> 873,
     ball_spacing_mm |-> 250,
     view_mode_3d |-> FALSE,
     view_mode_raytracing |-> FALSE,
     view_mode_natural_3d |-> FALSE,
     heatmap_mode |-> FALSE,
     show_light_source |-> TRUE,
     profile_mode |-> FALSE,
     profile_scan_axis |-> "Y",
     running |-> TRUE]

\* The spheres _rebuild_balls puts into the engine for the host fields h:
\* ball_count of them in a row along z, centered on z = 0.
RebuiltBalls(h) ==
    LET ball_y == (ViewHeight * 7) \div 10
        ball_x == ViewWidth \div 2
        ball_radius == Pixels(h.ball_radius_mm, 100)
        z_spacing == Pixels(h.ball_spacing_mm, 10)
        start_z == ((h.ball_count - 1) * z_spacing) \div 2
    IN  [i \in 1..h.ball_count |->
            [position |-> <<ball_x, ball_y, start_z - (i - 1) * z_spacing>>,
             radius |-> ball_radius]]

\* The scene of setup_default_scene: one sphere of radius 40 pixels.
DefaultBalls ==
    << [position |-> <<ViewWidth \div 2, (ViewHeight * 7) \div 10, 0>>,
        radius |-> (Fx(4)) \div 100] >>

\* light_pos_3d of light source i (from 0) of update_simulation
LightPosition(h, i) ==
    LET light_z_spacing == Pixels(h.light_spacing_mm, 10)
        start_light_z == ((h.light_count - 1) * light_z_spacing) \div 2
    IN  <<h.light_position[1], h.light_position[2],
          start_light_z - i * light_z_spacing>>

\* rays_per_source_radial and rays_per_source_circular
RaysPerSource(h) ==
    <<Max(5, 20 \div h.light_count), Max(4, 12 \div h.light_count)>>

\* The batches the loop of update_simulation generates for the light sources
\* lo .. hi - 1, in the order of the sources, in the scene as it stands.
RECURSIVE LightBatches(_, _, _)
LightBatches(h, lo, hi) ==
    IF hi <= lo THEN << >>
    ELSE IF hi = lo + 1
    THEN ConeBatch(LightPosition(h, lo), RaysPerSource(h)[1],
                   RaysPerSource(h)[2], h.light_spread, h.light_angle)
    ELSE LightBatches(h, lo, (lo + hi) \div 2)
         \o LightBatches(h, (lo + hi) \div 2, hi)

Batches == LightBatches(host, 0, host.light_count)

\* A variant of the clearing that leaves the stored rays in place.
ClearedNothing(stored) == stored

\* self.engine.rays.clear()
Cleared(stored) == << >>

\* A host method on reaching its closing self.update_simulation(): nothing
\* else runs until UpdateSimulation has.
CallUpdateSimulation ==
    /\ pc' = "update"
    /\ UNCHANGED <<rays, call, ray, bounce, max_bounces, hit, observed>>

\* update_simulation: the stored rays are cleared, then every light source
\* appends its batch; the method returns to the event loop.
UpdateSimulation ==
    /\ pc = "update"
    /\ pc' = "idle"
    /\ rays' = Cleared(rays) \o Batches
    /\ UNCHANGED <<host, scene, call, ray, bounce, max_bounces, hit,
                   observed>>

\* _rebuild_balls
RebuildBalls ==
    /\ balls' = RebuiltBalls(host')
    /\ UNCHANGED <<water_level, water_refractive_index>>
    /\ CallUpdateSimulation

\* OpticsSimulator.__init__ on reaching its closing self._rebuild_balls():
\* the fields are set, the engine holds the default scene and the index 1.47
\* and no ray has been generated yet.
HostInit ==
    /\ host = InitialHost
    /\ water_level = ViewHeight \div 2
    /\ water_refractive_index = 147 * (Scale \div 100)
    /\ balls = DefaultBalls
    /\ rays = << >>
    /\ pc = "construct"
    /\ call = NoCall
    /\ ray = NoRay
    /\ bounce = 0
    /\ max_bounces = 0
    /\ hit = NoHit
    /\ ev = NoEvent
    /\ plane_hits = 0
    /\ sphere_hits = 0
    /\ propagations = 0

\* The end of OpticsSimulator.__init__: self._rebuild_balls()
Construct ==
    /\ pc = "construct"
    /\ UNCHANGED host
    /\ RebuildBalls

\* Values the sliders deliver.
LightCounts == { 3 }

BallCounts == 1..MaxHostBalls

RadiusChoices == { 1500 }

SpacingChoices == { 100 }

\* _set_light_count
SetLightCount(value) ==
    /\ pc = "idle"
    /\ host' = [host EXCEPT !.light_count = value]
    /\ UNCHANGED scene
    /\ CallUpdateSimulation

\* _set_ball_count
SetBallCount(value) ==
    /\ pc = "idle"
    /\ host' = [host EXCEPT !.ball_count = value]
    /\ RebuildBalls

\* _set_ball_radius_mm
SetBallRadiusMm(value) ==
    /\ pc = "idle"
    /\ host' = [host EXCEPT !.ball_radius_mm = value]
    /\ RebuildBalls

\* _set_ball_spacing_mm
SetBallSpacingMm(value) ==
    /\ pc = "idle"
    /\ host' = [host EXCEPT !.ball_spacing_mm = value]
    /\ RebuildBalls

\* handle_events, key R: the default scene is set up again.
KeyR ==
    /\ pc = "idle"
    /\ host' = [host EXCEPT !.light_angle = 0, !.light_spread = Pi \div 2]
    /\ water_level' = ViewHeight \div 2
    /\ balls' = DefaultBalls
    /\ UNCHANGED water_refractive_index
    /\ CallUpdateSimulation

HostNext ==
    \/ Construct
    \/ UpdateSimulation
    \/ \E value \in LightCounts : SetLightCount(value)
    \/ \E value \in BallCounts : SetBallCount(value)
    \/ \E value \in RadiusChoices : SetBallRadiusMm(value)
    \/ \E value \in SpacingChoices : SetBallSpacingMm(value)
    \/ KeyR

HostSpec == HostInit /\ [][HostNext]_vars

\* The handlers of handle_events that change the view only.  They run from
\* the event loop and leave the engine alone.
ViewKey(changed) ==
    /\ pc = "idle"
    /\ host' = changed
    /\ UNCHANGED <<scene, rays, pc, call, ray, bounce, max_bounces, hit,
                   observed>>

\* handle_events, key 1 or 2: back to the 2D view.
KeyOneOrTwo ==
    ViewKey(IF host.view_mode_3d \/ host.view_mode_raytracing
               \/ host.view_mode_natural_3d
            THEN [host EXCEPT !.view_mode_3d = FALSE,
                              !.view_mode_raytracing = FALSE,
                              !.view_mode_natural_3d = FALSE]
            ELSE host)

\* handle_events, key 3: the 3D view with rays.
KeyThree ==
    ViewKey(IF ~host.view_mode_3d
            THEN [host EXCEPT !.view_mode_3d = TRUE,
                              !.view_mode_raytracing = FALSE,
                              !.view_mode_natural_3d = FALSE]
            ELSE host)

\* Key 4 handled without leaving the 3D view with rays.
KeyFourKeeping ==
    ViewKey(IF ~host.view_mode_natural_3d
            THEN [host EXCEPT !.view_mode_raytracing = FALSE,
                              !.view_mode_natural_3d = TRUE]
            ELSE host)

\* handle_events, key 4: the natural-light 3D view.
KeyFour ==
    ViewKey(IF ~host.view_mode_natural_3d
            THEN [host EXCEPT !.view_mode_3d = FALSE,
                              !.view_mode_raytracing = FALSE,
                              !.view_mode_natural_3d = TRUE]
            ELSE host)

\* handle_events, key H: the heatmap toggle of the 3D views.
KeyH ==
    ViewKey(IF host.view_mode_3d \/ host.view_mode_natural_3d
            THEN [host EXCEPT !.heatmap_mode = ~@]
            ELSE host)

\* handle_events, key L: the light-source toggle of the 3D views.
KeyL ==
    ViewKey(IF host.view_mode_3d \/ host.view_mode_natural_3d
            THEN [host EXCEPT !.show_light_source = ~@]
            ELSE host)

\* handle_events, key P
KeyP == ViewKey([host EXCEPT !.profile_mode = ~@])

\* handle_events, keys X and Y
KeyAxis(axis) == ViewKey([host EXCEPT !.profile_scan_axis = axis])

\* Values the light-intensity slider delivers, in hundredths.
LightIntensities == { 50, 100, 150 }

\* _set_light_intensity: the value is stored; no update follows.
SetLightIntensity(value) == ViewKey([host EXCEPT !.light_intensity = value])

ViewNext ==
    \/ Construct
    \/ UpdateSimulation
    \/ KeyOneOrTwo
    \/ KeyThree
    \/ KeyFour
    \/ KeyH
    \/ KeyL
    \/ KeyP
    \/ \E axis \in {"X", "Y"} : KeyAxis(axis)
    \/ \E value \in LightIntensities : SetLightIntensity(value)

ViewSpec == HostInit /\ [][ViewNext]_vars

\* ------------------------------------------------------------------------
\* Properties
\* ------------------------------------------------------------------------

\* The call in progress is one of the two light-source generators.
FromGenerator == call.kind \in {"fan", "cone"}

\* The position the ray of the call in progress starts from.
SourcePosition == IF call.kind = "trace" THEN call.origin ELSE call.position

\* trace_ray is at work on the ray, between its entry and its return.
Tracing == pc \in {"loop", "found"}

RECURSIVE Power(_, _)
Power(b, n) == IF n = 0 THEN 1 ELSE b * Power(b, n - 1)

\* 0.95^p * 0.8^s in units of 1 / IntensityUnit, 0.95 being 19/20 and 0.8
\* being 16/20.
ExpectedIntensity(p, s) ==
    (IntensityUnit \div Power(20, p + s)) * Power(19, p) * Power(16, s)

\* The refractive index of the side an interface hit arrived from, and of
\* the other side, judged by where the ray was before it advanced.
TravelledIndex ==
    IF ev.pre_origin[2] < water_level THEN N_AIR ELSE water_refractive_index

FarIndex ==
    IF ev.pre_origin[2] < water_level THEN water_refractive_index ELSE N_AIR

\* n1 > n2 and sin(theta1) > n2 / n1, with theta1 the angle between the
\* incident direction and the vertical normal of the interface.
BeyondCriticalAngle(n1, n2, incident) ==
    /\ n1 > n2
    /\ Mul(Mul(n1, n1), Scale - Mul(incident[2], incident[2])) > Mul(n2, n2)

\* The mirror image of a direction about the interface.
Mirrored(incident) ==
    [i \in 1..Len(incident) |-> IF i = 2 THEN -incident[i] ELSE incident[i]]

\* I - 2 * dot(I, N) * N
MirrorAbout(incident, normal) ==
    IF ~IsFinite(incident) \/ ~IsFinite(normal) THEN NonFinite
    ELSE [i \in 1..Len(incident) |->
             incident[i] - Mul(normal[i], 2 * Dot(incident, normal))]

\* The tolerance of comparisons between rounded quantities.
Tolerance == Scale \div 10000

\* The first iteration of the direct call in progress, recomputed from its
\* arguments: the ray as constructed, its nearest hit, and the ray after a
\* reflection at that hit.
FirstRay == NewRay(call.origin, call.direction, call.intensity)

FirstHit == NearestHit(FirstRay)

AfterFirstHit ==
    LET moved == Propagate(FirstRay, FirstHit.min_distance)
    IN  [moved EXCEPT
            !.direction = MirrorAbout(moved.direction, FirstHit.hit_data)]

\* A finished direct call, with the default bounce limit, of a ray of
\* intensity 1.0 whose nearest hit in a scene of one sphere is that sphere.
AimedAtSingleSphere ==
    /\ pc \in {"return", "done"}
    /\ call.kind = "trace"
    /\ call.max_bounces = DefaultMaxBounces
    /\ call.intensity = IntensityUnit
    /\ Len(balls) = 1
    /\ FirstHit.hit_type = "sphere"

\* C1: tracing never raises: during a create_light_source call with
\* num_rays >= 2 and during a create_light_source_3d call, no trace_ray call
\* ends in an exception.
C1_TracingNeverRaises ==
    (call.kind = "cone" \/ (call.kind = "fan" /\ call.num_rays >= 2))
        => pc # "raised"

\* A ray of a fan of two has reached the interface and refract has raised.
C1_FanRaisesAtInterface ==
    /\ pc = "raised"
    /\ call.kind = "fan"
    /\ call.num_rays >= 2
    /\ ev.kind = "water"
    /\ ev.outcome = "raise"

\* C2: trace_ray(ray, max_bounces) runs at most max_bounces iterations: at
\* most max_bounces interaction events (plane hits plus sphere hits), at
\* most max_bounces propagation steps, a path of at most 1 + max_bounces
\* points.
C2_BoundedByMaxBounces ==
    /\ bounce <= max_bounces
    /\ plane_hits + sphere_hits <= max_bounces
    /\ propagations <= max_bounces
    /\ Len(ray.path) <= 1 + max_bounces

\* A trace with max_bounces = 1 has used its one iteration on a hit and
\* returns a path of two points.
C2_LimitReached ==
    /\ pc = "return"
    /\ max_bounces = 1
    /\ bounce = 1
    /\ plane_hits + sphere_hits = 1
    /\ Len(ray.path) = 2

\* C3: for every ray created by a light-source generator the intensity lies
\* in [0, 1] and equals 0.95^p * 0.8^s after p plane hits and s sphere hits
\* in every reachable state, never increases from one trace step to the
\* next, and is unchanged by a step that is not a hit.
C3_Intensity ==
    /\ []((FromGenerator /\ ray # NoRay) =>
            /\ 0 <= ray.intensity
            /\ ray.intensity <= IntensityUnit
            /\ ray.intensity = ExpectedIntensity(plane_hits, sphere_hits))
    /\ [][(FromGenerator /\ Tracing) =>
            /\ ray'.intensity <= ray.intensity
            /\ (plane_hits' + sphere_hits' = plane_hits + sphere_hits
                  => ray'.intensity = ray.intensity)]_vars

\* A ray of a fan has been advanced to the interface, its one plane hit,
\* and still has intensity 1.0.
C3_PlaneHitAtFullIntensity ==
    /\ FromGenerator
    /\ plane_hits = 1
    /\ sphere_hits = 0
    /\ ray.intensity = IntensityUnit

\* C4: a ray's path is append-only: in every reachable state its length is
\* 1 + the number of propagation steps, it starts with the source position
\* and ends with the ray's current origin; every propagation step appends
\* exactly the new origin, no other step changes the path, and the rays
\* already in a batch are not touched.
C4_PathAppendOnly ==
    /\ [](ray # NoRay =>
            /\ Len(ray.path) = 1 + propagations
            /\ ray.path[1] = SourcePosition
            /\ ray.path[Len(ray.path)] = ray.origin)
    /\ [][Tracing =>
            /\ (propagations' = propagations + 1
                  => ray'.path = Append(ray.path, ray'.origin))
            /\ (propagations' = propagations => ray'.path = ray.path)
            /\ propagations' \in {propagations, propagations + 1}
            /\ (FromGenerator => call'.batch = call.batch)]_vars

\* A ray has been propagated twice and its path holds three points.
C4_TwoSegments ==
    /\ pc = "return"
    /\ propagations = 2
    /\ Len(ray.path) = 3
    /\ ray.path[3] = ray.origin
    /\ ray.path[2] # ray.path[3]

\* C5: at a plane hit (n1, n2) is chosen from the side the ray occupied
\* before it was advanced to the hit point: (air, medium) when that origin
\* is above the interface (origin.y < water_level), (medium, air) otherwise.
C5_PreAdvanceSide ==
    ev.kind = "water" =>
        <<ev.n1, ev.n2>> = <<TravelledIndex, FarIndex>>

\* A ray that travelled in air was handed to refract as (medium, air).
C5_AirRayTakenForMedium ==
    /\ ev.kind = "water"
    /\ ev.pre_origin[2] < water_level
    /\ ev.n1 = water_refractive_index
    /\ ev.n2 = N_AIR
    /\ ev.n1 # ev.n2

\* C6: at a plane hit that refract resolves, with n1 the index of the
\* medium the ray was travelling in and n2 the index of the other side, the
\* ray is totally reflected, with the mirror direction about the interface
\* normal, exactly when n1 > n2 and sin(theta1) > n2 / n1, and is refracted
\* otherwise: never when it arrives from air at a medium of index >= 1, and
\* always when it travels in water and meets the interface at 80 degrees.
C6_TotalReflectionRule ==
    (ev.kind = "water" /\ ev.outcome \in {"refract", "reflect"}) =>
        IF BeyondCriticalAngle(TravelledIndex, FarIndex, ev.incident)
        THEN ev.outcome = "reflect" /\ ray.direction = Mirrored(ev.incident)
        ELSE ev.outcome = "refract"

\* A ray arriving from air at a medium of index >= 1 has been totally
\* reflected.
C6_AirRayTotallyReflected ==
    /\ ev.kind = "water"
    /\ ev.pre_origin[2] < water_level
    /\ water_refractive_index >= N_AIR
    /\ ev.outcome = "reflect"

\* C7: every plane hit multiplies the intensity by exactly 0.95; the
\* direction becomes the refracted direction when refract returns one and
\* the mirror reflection about the interface normal otherwise; the sphere
\* list, the water level and the refractive index are not touched.
C7_PlaneHit ==
    [][(pc = "found" /\ hit.hit_type = "water") =>
          /\ 20 * ray'.intensity = 19 * ray.intensity
          /\ LET refracted == Refract(ray.direction, WaterNormal,
                                      ev'.n1, ev'.n2)
             IN  ray'.direction = IF refracted.kind = "vector"
                                  THEN refracted.v
                                  ELSE Mirrored(ray.direction)
          /\ scene' = scene]_vars

\* A plane hit has ended in an exception with the intensity as it was.
C7_PlaneHitWithoutAttenuation ==
    /\ ev.kind = "water"
    /\ ev.outcome = "raise"
    /\ pc = "raised"
    /\ ray.intensity = IntensityUnit
    /\ ray.direction = ev.incident

\* C8: every sphere hit replaces the direction by R = I - 2 * dot(I, N) * N
\* with N = (hit point - center) / radius of the sphere selected as nearest
\* hit, and multiplies the intensity by exactly 0.8; R satisfies
\* dot(R, N) = -dot(I, N) and has the length of I.
C8_SphereHit ==
    /\ [](ev.kind = "sphere" =>
            LET I == ev.incident
                N == ev.normal
                R == ray.direction
                selected == balls[ev.ball]
            IN  /\ N = VDivide(VSub(ray.origin, selected.position),
                               selected.radius)
                /\ R = MirrorAbout(I, N)
                /\ IsFinite(N)
                /\ IsFinite(R)
                /\ Abs(Dot(R, N) + Dot(I, N)) <= Tolerance
                /\ Abs(Norm(R) - Norm(I)) <= Tolerance)
    /\ [][(pc = "found" /\ hit.hit_type = "sphere") =>
            20 * ray'.intensity = 16 * ray.intensity]_vars

\* A ray has hit a sphere of radius zero and its direction is no longer a
\* vector of numbers.
C8_DegenerateNormal ==
    /\ ev.kind = "sphere"
    /\ balls[ev.ball].radius = 0
    /\ IsFinite(ev.incident)
    /\ ~IsFinite(ev.normal)
    /\ ~IsFinite(ray.direction)

\* C9: an iteration that finds no hit advances the ray by exactly 1000
\* units along its direction, appends that one point to the path, leaves
\* direction and intensity unchanged and stops the trace; a ray that misses
\* everything from the start ends with a path of exactly 2 points.
C9_Escape ==
    /\ [][(pc = "found" /\ hit.hit_type = "none") =>
            /\ (IsFinite(ray.origin) /\ IsFinite(ray.direction)) =>
                  /\ Len(ray'.origin) = Len(ray.origin)
                  /\ \A i \in 1..Len(ray.origin) :
                        ray'.origin[i] - ray.origin[i]
                            = 1000 * ray.direction[i]
            /\ ray'.path = Append(ray.path, ray'.origin)
            /\ ray'.direction = ray.direction
            /\ ray'.intensity = ray.intensity
            /\ pc' = "return"]_vars
    /\ []((pc \in {"return", "done"} /\ ev.kind = "escape"
           /\ plane_hits + sphere_hits = 0) =>
            Len(ray.path) = 2)

\* A ray has missed everything from the start and has been moved away.
C9_MissFromTheStart ==
    /\ pc = "return"
    /\ ev.kind = "escape"
    /\ plane_hits + sphere_hits = 0
    /\ Len(ray.path) = 2
    /\ IsFinite(ray.origin)
    /\ ray.origin # ray.path[1]

\* C10, as stated: a ray aimed directly at a single sphere, the interface
\* not between the source and the sphere, traced with the default bounce
\* limit, registers exactly one sphere hit, ends with intensity 0.8 and the
\* reflected direction, and its path has exactly 2 points.
C10_PathOfTwoPoints ==
    AimedAtSingleSphere =>
        /\ sphere_hits = 1
        /\ 20 * ray.intensity = 16 * IntensityUnit
        /\ ray.direction = AfterFirstHit.direction
        /\ Len(ray.path) = 2

\* C10, amended: when moreover the reflected ray meets neither the
\* interface nor the sphere again, the trace registers exactly one sphere
\* hit and no plane hit, ends with intensity 0.8 and the reflected
\* direction, and its path has exactly 3 points: the source, the hit point
\* and the point 1000 units further along the reflected direction.
C10_PathOfThreePoints ==
    (AimedAtSingleSphere /\ NearestHit(AfterFirstHit).hit_type = "none") =>
        /\ sphere_hits = 1
        /\ plane_hits = 0
        /\ 20 * ray.intensity = 16 * IntensityUnit
        /\ ray.direction = AfterFirstHit.direction
        /\ Len(ray.path) = 3
        /\ ray.path[1] = call.origin
        /\ ray.path[2] = AfterFirstHit.origin
        /\ ray.path[3] = Propagate(AfterFirstHit, Fx(1000)).origin

\* A ray has hit the single sphere head-on, has been sent back and has left
\* the scene.
C10_ReflectedAndGone ==
    /\ AimedAtSingleSphere
    /\ NearestHit(AfterFirstHit).hit_type = "none"
    /\ balls[1].radius > 0
    /\ sphere_hits = 1
    /\ Len(ray.path) = 3

\* The ray of the direct call in progress, as constructed, has the
\* interface ahead of it.
HeadsForInterface == IntersectWaterSurface(FirstRay).kind = "hit"

\* A direct call of a ray of intensity 1.0, with at least one iteration
\* allowed, has ended.
DirectCallEnded ==
    /\ pc \in {"return", "done", "raised"}
    /\ call.kind = "trace"
    /\ call.intensity = IntensityUnit
    /\ call.max_bounces >= 1

\* C11: in a scene with no spheres no ray registers a second plane hit, and
\* a ray that starts off the interface and heads toward it registers
\* exactly one, at a point with y = water_level, and ends with intensity
\* 0.95; the ray from (3, 1) with direction (0, 1) and water_level 3 hits
\* at (3, 3) and keeps its direction.
C11_SinglePlaneHit ==
    /\ balls = << >> => plane_hits <= 1
    /\ (balls = << >> /\ DirectCallEnded /\ HeadsForInterface) =>
          /\ plane_hits = 1
          /\ 20 * ray.intensity = 19 * IntensityUnit
          /\ Len(ray.path) >= 2
          /\ Abs(ray.path[2][2] - water_level) <= Tolerance
          /\ (/\ call.origin = <<Fx(3), Fx(1)>>
              /\ call.direction = <<0, Fx(1)>>
              /\ water_level = Fx(3)) =>
                /\ ray.path[2] = <<Fx(3), Fx(3)>>
                /\ ray.direction = <<0, Fx(1)>>

\* The ray from (3, 1) with direction (0, 1) has been advanced to (3, 3) and
\* its trace has ended in an exception, the intensity still 1.0.
C11_PlanarRayRaises ==
    /\ pc = "raised"
    /\ call.kind = "trace"
    /\ call.origin = <<Fx(3), Fx(1)>>
    /\ call.direction = <<0, Fx(1)>>
    /\ balls = << >>
    /\ ray.path = << <<Fx(3), Fx(1)>>, <<Fx(3), Fx(3)>> >>
    /\ ray.intensity = IntensityUnit

\* C12: at the start of every iteration, a ray whose intensity is below
\* 0.01 stops at once, with origin, direction, intensity and path as they
\* were; a ray whose intensity is 0.01 or more is not stopped there and goes
\* on to the search for the nearest hit.
C12_Cutoff ==
    [][(pc = "loop" /\ bounce < max_bounces) =>
          /\ ray' = ray
          /\ propagations' = propagations
          /\ IF ray.intensity < IntensityUnit \div 100
             THEN pc' = "return"
             ELSE pc' \in {"found", "raised"}]_vars

\* A ray that started with intensity exactly 0.01 was not stopped at its
\* first iteration, has been attenuated by one hit and then stopped.
C12_StoppedAfterOneHit ==
    /\ pc = "return"
    /\ ev.kind = "cutoff"
    /\ call.kind = "trace"
    /\ call.intensity = IntensityUnit \div 100
    /\ plane_hits + sphere_hits = 1
    /\ Len(ray.path) = 2

\* C13: trace_ray and both generators leave the scene configuration
\* unchanged: every step of a call, from its entry to its end, keeps the
\* sphere list, water_level and water_refractive_index.
C13_SceneUnchanged ==
    [][(pc # "idle" \/ pc' # "idle") =>
          /\ balls' = balls
          /\ water_level' = water_level
          /\ water_refractive_index' = water_refractive_index]_vars

\* The center ray of a cone has been traced in a scene with a sphere, with
\* hits on the interface and on the sphere, and stands in the batch.
C13_BatchTracedAmongSpheres ==
    /\ pc = "cone"
    /\ Len(call.batch) = 1
    /\ call.batch[1] = ray
    /\ Len(balls) >= 1
    /\ plane_hits >= 1
    /\ sphere_hits >= 1

\* C14: a malformed configuration never crashes: create_light_source with
\* num_rays = 0 or 1 and create_light_source_3d with num_rays_radial <= 1
\* or num_rays_circular = 0 do not raise and return an empty or trivial
\* batch, and a ray of three components is traced without raising in a
\* scene that holds a sphere of zero or negative radius.
C14_MalformedNeverCrashes ==
    /\ (call.kind = "fan" /\ call.num_rays <= 1) =>
          /\ pc # "raised"
          /\ pc = "done" => Len(call.batch) = call.num_rays
    /\ (call.kind = "cone"
        /\ (call.num_rays_radial <= 1 \/ call.num_rays_circular = 0)) =>
          /\ pc # "raised"
          /\ (pc = "done" /\ call.num_rays_radial <= 1)
                => Len(call.batch) = 1
    /\ (call.kind \in {"trace", "cone"}
        /\ Len(SourcePosition) = 3
        /\ \E k \in 1..Len(balls) : balls[k].radius <= 0) =>
          pc # "raised"

\* create_light_source with num_rays = 1 has raised before its first ray.
C14_FanOfOneRaises ==
    /\ pc = "raised"
    /\ call.kind = "fan"
    /\ call.num_rays = 1
    /\ call.i = 0
    /\ call.batch = << >>
    /\ ray = NoRay

\* C15: a sphere whose radius is zero or negative never registers a hit:
\* intersect_sphere returns no hit for it whatever the ray, it is never the
\* selected nearest hit, and it never changes a ray's direction or
\* intensity.
C15_DegenerateSphereNeverHit ==
    /\ (pc = "loop" /\ ray # NoRay) =>
          \A k \in 1..Len(balls) :
              balls[k].radius <= 0 =>
                  IntersectSphere(ray, balls[k]).kind # "hit"
    /\ (pc = "found" /\ hit.hit_type = "sphere") =>
          balls[hit.ball].radius > 0
    /\ ev.kind = "sphere" => balls[ev.ball].radius > 0

\* A ray has been reflected by the sphere of radius -1 as by a unit sphere:
\* new direction, intensity times 0.8.
C15_NegativeSphereReflects ==
    /\ ev.kind = "sphere"
    /\ balls[ev.ball].radius < 0
    /\ sphere_hits = 1
    /\ plane_hits = 0
    /\ IsFinite(ray.direction)
    /\ ray.direction # ev.incident
    /\ 20 * ray.intensity = 16 * call.intensity

\* The angle the fan of call c gives to its k-th ray, counted from 0:
\* center_angle - spread/2 + spread * k / (num_rays - 1).
FanExpectedAngle(c, k) ==
    c.center_angle - MulDiv(c.spread_angle, 1, 2)
        + MulDiv(c.spread_angle * k, 1, c.num_rays - 1)

\* C16: create_light_source with num_rays >= 2 returns exactly num_rays
\* rays in ascending angle order, ray i at angle
\* center_angle - spread/2 + spread * i / (num_rays - 1), the first at
\* center_angle - spread/2 and the last at center_angle + spread/2, each
\* starting at the given position with direction (sin angle, cos angle);
\* five rays over a right angle stand at -45, -22.5, 0, 22.5 and 45 degrees
\* from the center.
C16_FanBatch ==
    (call.kind = "fan" /\ call.num_rays >= 2) =>
        /\ pc # "raised"
        /\ pc = "done" =>
              /\ Len(call.batch) = call.num_rays
              /\ rays = call.batch
              /\ \A k \in 0..(call.num_rays - 1) :
                    LET angle == FanExpectedAngle(call, k)
                        r == call.batch[k + 1]
                    IN  /\ r.path[1] = call.position
                        /\ Len(r.direction) = 2
                        /\ Abs(r.direction[1] - Sin(angle)) <= Tolerance
                        /\ Abs(r.direction[2] - Cos(angle)) <= Tolerance
                        /\ k > 0 => FanExpectedAngle(call, k - 1) < angle
                        /\ (call.num_rays = 5
                            /\ call.spread_angle = Pi \div 2) =>
                              Abs(8 * (angle - call.center_angle)
                                  - (k - 2) * Pi) <= 8
              /\ Abs(2 * (FanExpectedAngle(call, 0) - call.center_angle)
                     + call.spread_angle) <= 2
              /\ Abs(2 * (FanExpectedAngle(call, call.num_rays - 1)
                          - call.center_angle)
                     - call.spread_angle) <= 2

\* The fan of five rays over a right angle, pointing down at the interface,
\* has raised at its first ray.
C16_ExampleFanRaises ==
    /\ pc = "raised"
    /\ call.kind = "fan"
    /\ call.num_rays = 5
    /\ call.spread_angle = Pi \div 2
    /\ call.center_angle = 0
    /\ call.i = 0
    /\ call.batch = << >>
    /\ plane_hits = 1

\* sum over i = from..(R - 1) of max(1, floor(C * i / R))
RECURSIVE RingSum(_, _, _)
RingSum(from, R, C) ==
    IF from > R - 1 THEN 0
    ELSE Max(1, (C * from) \div R) + RingSum(from + 1, R, C)

\* C17: create_light_source_3d with num_rays_radial = R >= 1 and
\* num_rays_circular = C returns exactly
\* 1 + sum over i = 1..R-1 of max(1, floor(C * i / R)) rays, 13 of them for
\* R = 3 and C = 12.
C17_ConeCount ==
    (call.kind = "cone" /\ call.num_rays_radial >= 1) =>
        /\ pc # "raised"
        /\ Len(call.batch)
              <= 1 + RingSum(1, call.num_rays_radial, call.num_rays_circular)
        /\ pc = "done" =>
              /\ Len(call.batch)
                    = 1 + RingSum(1, call.num_rays_radial,
                                  call.num_rays_circular)
              /\ (call.num_rays_radial = 3 /\ call.num_rays_circular = 12)
                    => Len(call.batch) = 13

\* A cone of two levels and five samples has returned its three rays: the
\* ring has floor(5 / 2) = 2 samples.
C17_RingOfTwo ==
    /\ pc = "done"
    /\ call.kind = "cone"
    /\ call.num_rays_radial = 2
    /\ call.num_rays_circular = 5
    /\ Len(call.batch) = 3

\* max(1, floor(C * i / R)): the samples of ring i
RingSamples(R, C, i) == Max(1, (C * i) \div R)

\* (spread/2) * i / (R - 1): the polar angle of ring i
RingPolarAngle(sp, R, i) == MulDiv(MulDiv(sp, 1, 2) * i, 1, R - 1)

\* A ray of ring i >= 1 of a cone is being traced or has just been traced.
OnRing ==
    call.kind = "cone" /\ call.i >= 1 /\ pc \in {"loop", "found", "return"}

\* The place and the polar angle of the ring ray at hand; strictly tells
\* whether the polar angle is to grow with i whatever the spread.
ConeRings(strictly) ==
    OnRing =>
            LET R == call.num_rays_radial
                C == call.num_rays_circular
                sp == call.spread_angle
            IN  /\ call.i <= R - 1
                /\ call.j < RingSamples(R, C, call.i)
                /\ Len(call.batch)
                      = 1 + (RingSum(1, R, C) - RingSum(call.i, R, C)) + call.j
                /\ ray.path[1] = call.position
                /\ Abs(call.theta - RingPolarAngle(sp, R, call.i)) <= 1
                /\ call.i = R - 1 => call.theta = MulDiv(sp, 1, 2)
                /\ (strictly \/ sp > 0) =>
                      \A k \in 1..(R - 1) :
                          RingPolarAngle(sp, R, k)
                              > RingPolarAngle(sp, R, k - 1)
                /\ sp = 0 => call.theta = 0
                /\ \A k \in 2..(R - 1) :
                      RingSamples(R, C, k) >= RingSamples(R, C, k - 1)

\* The center ray comes first, every traced ray is appended at the end of
\* the batch, (i, j) advance in lexicographic order, and a ray starts at
\* polar angle theta from the center axis.
ConeSteps ==
    /\ []((call.kind = "cone" /\ call.i = 0
            /\ pc \in {"loop", "found", "return"})
            => call.batch = << >> /\ ray.path[1] = call.position)
    /\ [][(call.kind = "cone" /\ call'.kind = "cone"
           /\ call'.batch # call.batch) =>
            /\ call'.batch = Append(call.batch, ray)
            /\ \/ call'.i = call.i /\ call'.j = call.j + 1
               \/ call'.i = call.i + 1 /\ call'.j = 0]_vars
    /\ [][(pc = "cone" /\ pc' = "loop") =>
            /\ Len(ray'.path) = 1
            /\ Abs(Dot(ray'.direction,
                       <<Sin(call.center_angle), Cos(call.center_angle), 0>>)
                   - Cos(call'.theta)) <= Tolerance]_vars

\* C18 as stated: the batch of create_light_source_3d holds the center ray
\* first, then the rings in increasing i and within a ring the samples in
\* increasing j; ring i has polar angle (spread/2) * i / (R - 1), strictly
\* increasing with i, the outermost ring exactly at spread/2; the samples
\* per ring never decrease as i grows.
C18_FixedOrder == []ConeRings(TRUE) /\ ConeSteps

\* C18 amended: the same, the polar angle being strictly increasing with i
\* when spread_angle > 0; with spread_angle = 0 every ring lies on the axis.
C18_FixedOrderPositiveSpread == []ConeRings(FALSE) /\ ConeSteps

\* A cone of three levels with spread 0 has returned: its two rings both had
\* polar angle 0.
C18_RingsOnTheAxis ==
    /\ pc = "done"
    /\ call.kind = "cone"
    /\ call.num_rays_radial = 3
    /\ call.spread_angle = 0
    /\ call.theta = 0
    /\ Len(call.batch) = 3

\* The sine of the angle between the unit vector v and the line of the
\* normal n: the length of the part of v at right angles to n.
SineFromNormal(v, n) == Norm(VSub(v, VScale(n, Dot(v, n))))

\* refract has returned a direction at the interface hit just made; the
\* ray is a vector of numbers.
Refracted ==
    /\ ev.kind = "water"
    /\ ev.outcome = "refract"
    /\ IsFinite(ev.incident)

\* C19: whenever refract returns a direction, the incident angle theta1 and
\* the refracted angle theta2 from the interface normal satisfy
\* n1 * sin(theta1) = n2 * sin(theta2) for the (n1, n2) it was called with,
\* and the component of the refracted direction along the normal keeps the
\* sign of the incident one.
C19_SnellsLaw ==
    Refracted =>
        /\ Abs(Mul(ev.n1, SineFromNormal(ev.incident, ev.normal))
               - Mul(ev.n2, SineFromNormal(ray.direction, ev.normal)))
              <= Tolerance
        /\ Sgn(Dot(ray.direction, ev.normal))
              = Sgn(Dot(ev.incident, ev.normal))

\* A ray running along the normal (upwards) at 80 degrees from it has been
\* refracted: the law holds with the two indices exchanged, and not with
\* the pair refract was called with.
C19_IndicesExchanged ==
    /\ Refracted
    /\ Dot(ev.incident, ev.normal) > 0
    /\ SineFromNormal(ev.incident, ev.normal) > Scale \div 2
    /\ Abs(Mul(ev.n2, SineFromNormal(ev.incident, ev.normal))
           - Mul(ev.n1, SineFromNormal(ray.direction, ev.normal)))
          <= Tolerance
    /\ Abs(Mul(ev.n1, SineFromNormal(ev.incident, ev.normal))
           - Mul(ev.n2, SineFromNormal(ray.direction, ev.normal)))
          > Scale \div 10

\* v is a vector of numbers of length 1, within the error that five updates
\* in fixed point can add up to.
UnitLength(v) == IsFinite(v) /\ Abs(Norm(v) - Scale) <= 10 * Tolerance

\* C20: every ray's direction has unit length after construction and after
\* every refraction or reflection update of trace_ray, for every sphere
\* radius accepted by add_ball and every initial direction accepted by Ray.
C20_UnitDirection ==
    /\ ray # NoRay => UnitLength(ray.direction)
    /\ \A k \in 1..Len(rays) : UnitLength(rays[k].direction)

\* Ray has accepted the zero vector as direction, and the direction of the
\* ray it built is not a vector of numbers.
C20_DirectionLost ==
    /\ pc = "loop"
    /\ call.kind = "trace"
    /\ call.direction = <<0, 0, 0>>
    /\ bounce = 0
    /\ Len(ray.path) = 1
    /\ ~IsFinite(ray.direction)

\* The rays whose trace has returned to a generator or is stored in the
\* engine: the scene has been the same for all of them.
Completed ==
    rays \o (IF FromGenerator THEN call.batch ELSE << >>)

\* Two traced rays started at the same point and took the same first
\* segment, that is, they had the same origin and the same direction.
SameStart(r1, r2) ==
    /\ Len(r1.path) >= 2
    /\ Len(r2.path) >= 2
    /\ r1.path[1] = r2.path[1]
    /\ r1.path[2] = r2.path[2]

\* C21: rays are traced in isolation: two rays with the same origin and
\* direction, traced in the same scene, end with the same path, direction
\* and intensity whatever was traced before them or in between, and the
\* steps of a trace change no other ray, neither of the batch nor of the
\* stored collection.
C21_Isolation ==
    /\ [](\A k, l \in 1..Len(Completed) :
            SameStart(Completed[k], Completed[l])
                => Completed[k] = Completed[l])
    /\ [][Tracing => (rays' = rays /\ call' = call)]_vars
    /\ [][(FromGenerator /\ call'.kind = call.kind) =>
            \A k \in 1..Len(call.batch) :
                /\ k <= Len(call'.batch)
                /\ call'.batch[k] = call.batch[k]]_vars

\* A second cone has been traced in a scene with a sphere, after another
\* one: the center rays of the two, each with hits on the interface and on
\* the sphere, are equal.
C21_SameRayTwice ==
    /\ pc = "done"
    /\ call.kind = "cone"
    /\ Len(balls) >= 1
    /\ Len(rays) > Len(call.batch)
    /\ SameStart(rays[1], call.batch[1])
    /\ rays[1] = call.batch[1]
    /\ Len(rays[1].path) >= 4
    /\ rays[1].intensity <= ExpectedIntensity(1, 1)

\* The number of rays create_light_source_3d returns for the counts
\* update_simulation passes.
BatchSize(h) == 1 + RingSum(1, RaysPerSource(h)[1], RaysPerSource(h)[2])

Candidates(r) ==
    LET water  == IntersectWaterSurface(r)
        sphere == [k \in 1..Len(balls) |-> IntersectSphere(r, balls[k])]
    IN  (IF water.kind = "hit"
         THEN {[ball |-> 0, dist |-> water.t]}
         ELSE {})
        \cup {[ball |-> k, dist |-> sphere[k].t] :
                 k \in {n \in 1..Len(balls) : sphere[n].kind = "hit"}}

\* The candidates at the minimum distance.
Nearest(r) ==
    Once(Candidates(r), LAMBDA found :
         {c \in found : \A d \in found : c.dist <= d.dist})

\* C23: in every iteration of trace_ray that finds a candidate, the ray is
\* advanced by the minimum hit distance over the interface and all spheres,
\* and the transform applied is the one of a candidate at that minimum: of
\* the only such candidate, whatever the order of the spheres in the list,
\* when the minimum is unique.
C23_NearestHit ==
    /\ [](pc = "found" =>
            Once(Nearest(ray), LAMBDA nearest :
                 IF nearest = {} THEN hit.hit_type = "none"
                 ELSE /\ hit.hit_type # "none"
                      /\ [ball |-> hit.ball, dist |-> hit.min_distance]
                            \in nearest
                      /\ hit.hit_type = "water" <=> hit.ball = 0
                      /\ hit.hit_type = "sphere" =>
                            hit.hit_data
                              = IntersectSphere(ray, balls[hit.ball]).normal))
    /\ [][pc = "found" =>
             Once(Nearest(ray), LAMBDA nearest :
                  nearest # {} =>
                     \E c \in nearest :
                        /\ ray'.origin
                              = VAdd(ray.origin, VScale(ray.direction, c.dist))
                        /\ ev'.dist = c.dist
                        /\ ev'.kind = IF c.ball = 0 THEN "water" ELSE "sphere"
                        /\ c.ball # 0 =>
                              ray'.direction
                                = Reflect(ray.direction,
                                          IntersectSphere(
                                              ray, balls[c.ball]).normal)
                        /\ Cardinality(nearest) = 1 => ev'.ball = c.ball)]_vars

\* A ray has been reflected at the second sphere of the list although the
\* first sphere and the interface were candidates too, farther away.
C23_SecondSphereNearest ==
    /\ pc = "loop"
    /\ ev.kind = "sphere"
    /\ ev.ball = 2
    /\ LET before == [ray EXCEPT !.origin = ev.pre_origin,
                                 !.direction = ev.incident]
       IN  /\ Cardinality(Candidates(before)) = 3
           /\ Cardinality(Nearest(before)) = 1
           /\ \A c \in Candidates(before) :
                  c.ball # 2 => c.dist > ev.dist

\* The ray of the current iteration has finite coordinates.
FiniteRay == IsFinite(ray.origin) /\ IsFinite(ray.direction)

\* t = (water_level - origin.y) / direction.y, for a ray that is not
\* horizontal.
PlaneDistance(r) == Div(water_level - r.origin[2], r.direction[2])

\* The ray runs parallel to the interface: |direction.y| < 0.001.
Parallel(r) == Abs(r.direction[2]) < Epsilon

\* The ray moves away from the interface, or lies in it.
MovingAway(r) ==
    Sgn(water_level - r.origin[2]) # Sgn(r.direction[2])
        \/ water_level = r.origin[2]

\* C24: intersect_water_surface returns no hit when |direction.y| < 0.001
\* and when t = (water_level - origin.y) / direction.y is below 0.001, and
\* exactly that t otherwise; so a ray parallel to the interface and a ray
\* moving away from it never register a plane hit.
C24_InterfaceRule ==
    /\ [](pc = "found" /\ FiniteRay =>
            IntersectWaterSurface(ray)
              = IF Parallel(ray) THEN [kind |-> "none", t |-> 0]
                ELSE IF PlaneDistance(ray) < Epsilon
                THEN [kind |-> "none", t |-> 0]
                ELSE [kind |-> "hit", t |-> PlaneDistance(ray)])
    /\ [](pc = "found" /\ FiniteRay /\ (Parallel(ray) \/ MovingAway(ray)) =>
            hit.hit_type # "water")
    /\ [][plane_hits' > plane_hits =>
             /\ FiniteRay
             /\ ~Parallel(ray)
             /\ ~MovingAway(ray)
             /\ PlaneDistance(ray) >= Epsilon
             /\ ev'.dist = PlaneDistance(ray)]_vars

\* A ray 0.0005 above the interface with a slope of 0.0005 towards it has
\* been scanned without a plane hit.
C24_NearlyParallel ==
    /\ pc = "found"
    /\ FiniteRay
    /\ ray.direction[2] > 0
    /\ Parallel(ray)
    /\ water_level - ray.origin[2] = Epsilon \div 2
    /\ hit.hit_type # "water"

\* The quadratic of intersect_sphere for the ray r and a sphere: its
\* coefficients b and c, the discriminant and, when that is not negative,
\* the two roots.
Quadratic(r, ball) ==
    LET oc == VSub(r.origin, ball.position)
        a  == Dot(r.direction, r.direction)
        b  == 2 * Dot(oc, r.direction)
        c  == Dot(oc, oc) - Mul(ball.radius, ball.radius)
        discriminant == Mul(b, b) - 4 * Mul(a, c)
    IN  [b |-> b, c |-> c, discriminant |-> discriminant,
         smaller |-> IF discriminant < 0 THEN 0
                     ELSE Div(-b - Sqrt(discriminant), 2 * a),
         larger  |-> IF discriminant < 0 THEN 0
                     ELSE Div(-b + Sqrt(discriminant), 2 * a)]

\* The spheres of the scene that have as many coordinates as the ray of
\* the current iteration.
Comparable == { k \in 1..Len(balls) : SameShape(ray.origin, balls[k].position) }

\* The root rule of intersect_sphere, for the ray of the current iteration
\* and every sphere of the scene.
RootRule ==
    \A k \in Comparable :
       LET q == Quadratic(ray, balls[k])
           result == IntersectSphere(ray, balls[k])
       IN  /\ q.discriminant < 0 => result.kind = "none"
           /\ q.discriminant >= 0 /\ q.smaller >= Epsilon =>
                 result.kind = "hit" /\ result.t = q.smaller
           /\ q.discriminant >= 0 /\ q.smaller < Epsilon
                 /\ q.larger >= Epsilon =>
                 result.kind = "hit" /\ result.t = q.larger
           /\ q.discriminant >= 0 /\ q.smaller < Epsilon
                 /\ q.larger < Epsilon => result.kind = "none"

\* The ray starts outside the sphere and its line meets the sphere ahead.
OutsidePointingAt(q) == q.c > 0 /\ q.b < 0 /\ q.discriminant >= 0

\* The ray starts outside the sphere and does not approach its centre.
OutsidePointingAway(q) == q.c > 0 /\ q.b >= 0

\* The ray starts inside the sphere.
StartsInside(q) == q.c < 0

\* The ray of the current iteration has just been reflected at sphere k.
JustReflectedAt(k) == ev.kind = "sphere" /\ ev.ball = k

\* The consequences of the root rule for rays pointing away from a sphere
\* and for rays just reflected at one.
AwayAndReflected ==
    \A k \in Comparable :
       LET q == Quadratic(ray, balls[k])
           result == IntersectSphere(ray, balls[k])
       IN  /\ OutsidePointingAway(q) => result.kind = "none"
           /\ JustReflectedAt(k) /\ result.kind = "hit" =>
                 result.t >= Epsilon

FirstIn(nearest) ==
    CHOOSE k \in { c.ball : c \in nearest } : \A c \in nearest : k <= c.ball

\* The first of the nearest candidates of the ray r in check order.
FirstChecked(r) == FirstIn(Nearest(r))

\* Two or more candidates share the minimum hit distance.
Tie(r) == Cardinality(Nearest(r)) >= 2

\* The ray handed to trace_ray by the current call.
CalledRay == NewRay(call.origin, call.direction, call.intensity)

\* The ray of the iteration that produced the last event.
RayBefore == [ray EXCEPT !.origin = ev.pre_origin, !.direction = ev.incident]

\* C26: ties for the nearest hit are broken by check order: with the
\* interface and a sphere at the same distance the hit is handled as a
\* plane hit (refraction or reflection, factor 0.95); with two spheres at
\* the same distance the earlier one in the list supplies the normal.
C26_TiesByCheckOrder ==
    /\ [](pc = "found" =>
            Once(Nearest(ray), LAMBDA nearest :
                 Cardinality(nearest) >= 2 =>
                    /\ hit.ball = FirstIn(nearest)
                    /\ hit.hit_type = IF FirstIn(nearest) = 0 THEN "water"
                                       ELSE "sphere"
                    /\ FirstIn(nearest) # 0 =>
                          hit.hit_data
                            = IntersectSphere(
                                  ray, balls[FirstIn(nearest)]).normal))
    /\ [][pc = "found" =>
             Once(Nearest(ray), LAMBDA nearest :
                  Cardinality(nearest) >= 2 =>
                     IF FirstIn(nearest) = 0
                     THEN /\ plane_hits' = plane_hits + 1
                          /\ sphere_hits' = sphere_hits
                          /\ ev'.kind = "water"
                          /\ ev'.outcome \in {"refract", "reflect"}
                          /\ 20 * ray'.intensity = 19 * ray.intensity
                     ELSE /\ sphere_hits' = sphere_hits + 1
                          /\ plane_hits' = plane_hits
                          /\ ev'.ball = FirstIn(nearest)
                          /\ ev'.normal
                                = IntersectSphere(
                                      ray, balls[FirstIn(nearest)]).normal
                          /\ ray'.direction
                                = Reflect(ray.direction, ev'.normal))]_vars

\* One trace has met both ties: the interface together with the top of
\* the upper sphere, handled as a plane hit, and then the bottom of the
\* upper sphere together with the top of the lower one, reflected with the
\* normal of the sphere that is first in the list.
C26_BothTies ==
    /\ pc = "loop"
    /\ call.kind = "trace"
    /\ plane_hits = 1
    /\ sphere_hits = 1
    /\ Len(ray.path) = 3
    /\ Tie(CalledRay)
    /\ FirstChecked(CalledRay) = 0
    /\ ev.kind = "sphere"
    /\ ev.ball = 1
    /\ Nearest(RayBefore) = {[ball |-> 1, dist |-> ev.dist],
                             [ball |-> 2, dist |-> ev.dist]}

\* The intensity after five sphere hits: 0.8^5 = 0.32768.
FiveReflections ==
    Attenuate(Attenuate(Attenuate(Attenuate(Attenuate(
        IntensityUnit, SphereFactor), SphereFactor), SphereFactor),
        SphereFactor), SphereFactor)

\* A generator is tracing, or has just traced, one of its rays.
GeneratorTrace == call.kind \in {"fan", "cone"} /\ ray # NoRay

\* What C27 says of a generator's trace apart from how it may end: the
\* default bounce limit, an intensity of at least 0.8^5, no cutoff, and a
\* path that ends at the last hit point when the bounce limit is exhausted.
GeneratorTraceBounded ==
    GeneratorTrace =>
       /\ max_bounces = DefaultMaxBounces
       /\ ray.intensity >= FiveReflections
       /\ ~BelowCutoff(ray)
       /\ ev.kind # "cutoff"
       /\ pc = "return" =>
             \/ ev.kind = "escape"
             \/ /\ ev.kind \in {"water", "sphere"}
                /\ bounce = DefaultMaxBounces
                /\ plane_hits + sphere_hits = DefaultMaxBounces
                /\ Len(ray.path) = 1 + DefaultMaxBounces
                /\ ray.path[Len(ray.path)] = ray.origin
                /\ ray.origin
                     = VAdd(ev.pre_origin, VScale(ev.incident, ev.dist))

\* C27: with the default bounce limit and initial intensity 1.0 the cutoff
\* never fires: the intensity of a generator's ray stays at or above
\* 0.8^5 = 0.32768, and every trace a generator starts ends by escaping or
\* by exhausting the bounce limit, then with the last hit point as the end
\* of the path.
C27_CutoffNeverFires ==
    /\ GeneratorTraceBounded
    /\ GeneratorTrace => pc # "raised"

\* A ray of create_light_source has reached the interface at full
\* intensity and its trace has ended there with an exception: neither an
\* escape nor an exhausted bounce limit.
C27_FanTraceAborted ==
    /\ pc = "raised"
    /\ call.kind = "fan"
    /\ ray # NoRay
    /\ ray.intensity = IntensityUnit
    /\ bounce < DefaultMaxBounces
    /\ ev.kind = "water"
    /\ ev.outcome = "raise"
    /\ Len(ray.path) = 2

\* A ray of create_light_source_3d, sent from inside a sphere, has
\* exhausted the bounce limit after five sphere hits, with intensity 0.8^5
\* and a path that ends at the last hit point.
C27_ConeRayExhausted ==
    /\ pc = "return"
    /\ call.kind = "cone"
    /\ ev.kind = "sphere"
    /\ bounce = DefaultMaxBounces
    /\ sphere_hits = DefaultMaxBounces
    /\ ray.intensity = FiveReflections
    /\ Len(ray.path) = 1 + DefaultMaxBounces

\* Every ray of the batch was sent from the position of the current call.
OwnBatch ==
    \A k \in 1..Len(call.batch) :
       /\ call.batch[k] # NoRay
       /\ call.batch[k].path[1] = call.position

\* C28: create_light_source replaces engine.rays with its batch, whatever
\* was stored before; create_light_source_3d appends its batch to
\* engine.rays, so consecutive calls leave their batches in call order;
\* each call returns its own batch only; nothing else touches engine.rays.
C28_ReplaceVersusAppend ==
    /\ [][pc = "fan" /\ pc' = "done" =>
             /\ rays' = call.batch
             /\ call' = call
             /\ Len(call.batch) = call.num_rays
             /\ OwnBatch]_vars
    /\ [][pc = "cone" /\ pc' = "done" =>
             /\ rays' = rays \o call.batch
             /\ call' = call
             /\ Len(call.batch) >= 1
             /\ OwnBatch]_vars
    /\ [][rays' # rays => pc' = "done" /\ pc \in {"fan", "cone"}]_vars

\* The second of two consecutive create_light_source_3d calls has
\* returned: engine.rays holds the ray of the first call, sent from inside
\* the sphere, followed by the thirteen rays of the second, sent from
\* above, and the second call returns those thirteen only.
C28_TwoBatchesInOrder ==
    /\ pc = "done"
    /\ call.kind = "cone"
    /\ call.position \in ConePositions
    /\ Len(call.batch) = 13
    /\ Len(rays) = 14
    /\ rays[1].path[1] \in InnerConePositions
    /\ call.batch = SubSeq(rays, 2, 14)
    /\ OwnBatch

====
